---- MODULE Spec2Model ----
(***************************************************************************)
(* Real-time synchronisation core of the chat application: the message     *)
(* routes (send, upload, read, edit, delete, reactions) over the Chat and   *)
(* Message models, the Socket.IO server (rooms, relay) and the chat         *)
(* screen's new-message handler.                                            *)
(*                                                                          *)
(* Every route handler is an async function: each `await` of a database     *)
(* operation is one step of the handler, and steps of different requests    *)
(* interleave.  A Mongoose document loaded by findById is a private copy;   *)
(* save() writes only the paths the handler modified on that copy.          *)
(***************************************************************************)
EXTENDS Integers, Sequences, FiniteSets, TLC

\* ------------------------------------------------------------------ bounds
MaxInFlight == 2    \* HTTP requests in progress at the same time
MaxSends == 3       \* messages sent in one run of SpecSend
MaxMsgs == 2        \* messages sent in one run of SpecSeq
MaxEdited == 1      \* messages sent in one run of SpecMsg
MaxVersion == 2     \* reaction saves per message (increments of __v)
MaxPosted == 1      \* messages sent in one run of SpecRoom or SpecScreen
MaxInbox == 1       \* events emitted to one socket and not yet handled
MaxShown == 2       \* entries a chat screen adds to its list by new-message events
MaxSockets == 3     \* sockets of one SocketService that are in use at a time
MaxPending == 2     \* connect() calls suspended on reading the token
MaxBadge == 2       \* unread count shown by a home screen
MaxErrors == 2      \* failed connection attempts where the failures are not the subject
MaxTries == 4       \* reconnect attempts and failures counted since the last successful connect

\* ------------------------------------------------------- fixed population
Users == {"u1", "u2", "u3"}
Chats == {"c1", "c2"}
None == "none"
MsgIds == 1 .. MaxSends
Slots == 1 .. MaxInFlight
Emojis == {"", "+"}

\* c1 is a group of three with u1 as admin; c2 is a group of u1 and u2 in
\* which only admins (u1) may send.  (Chat documents, part_012 schema.)
participants(c) == IF c = "c1" THEN <<"u1", "u2", "u3">> ELSE <<"u1", "u2">>
chatType(c) == "group"
admins(c) == {"u1"}
onlyAdminsCanSendMessages(c) == c = "c2"
chatIsActive(c) == TRUE

Range(s) == {s[i] : i \in 1 .. Len(s)}

RECURSIVE SelectSeqBy(_, _)
\* s.filter(x => x \in keep), order preserved
SelectSeqBy(s, keep) ==
  IF s = <<>> THEN <<>>
  ELSE IF Head(s) \in keep THEN <<Head(s)>> \o SelectSeqBy(Tail(s), keep)
       ELSE SelectSeqBy(Tail(s), keep)

isParticipant(c, u) == \E i \in 1 .. Len(participants(c)) : participants(c)[i] = u

\* chat.participants.filter(p => p.user !== req.user._id)
otherParticipants_all(c, u) == participants(c)

otherParticipants(c, u) == SelectSeqBy(participants(c), Users \ {u})

VARIABLES
  unreadCount,   \* Chat.unreadCount : chat -> (user -> Nat); absent key read as 0
  lastMessage,   \* Chat.lastMessage : chat -> message id or 0
  msgs,          \* the messages collection : id -> document or NoMsg
  allocated,     \* number of message _ids generated by `new Message`
  reqs,          \* HTTP requests: slot -> the handler's locals, or the response left in it
  conns,         \* server side of each socket: state, socket.userId, rooms, latest token
  connectedUsers,\* the server's connectedUsers map : user -> socket id or None
  inbox,         \* events emitted to a socket and not yet handled by its client
  screen,        \* ChatScreen of the client behind each socket: open chat, messages
  io,            \* routes/messages `let io`: TRUE once setIO(socketIO) was called
  before,        \* history: Chat.unreadCount as it was when the latest request arrived
  svc,           \* the client's SocketService instance and the sockets it created
  hist           \* history of the client: what the claims about it refer back to

dbVars == <<unreadCount, lastMessage, msgs, allocated>>
vars == <<unreadCount, lastMessage, msgs, allocated, reqs, conns, connectedUsers,
          inbox, screen, io, before, svc, hist>>

Conns == {"k1", "k2"}

NoMsg == [chat |-> None, sender |-> None, content |-> "", mediaUrl |-> "",
          isDeleted |-> FALSE, isEdited |-> FALSE,
          reactions |-> <<>>, readBy |-> <<>>, v |-> 0, createdAt |-> 0]

exists(m) == m \in MsgIds /\ msgs[m].chat # None

ZeroCnt == [u \in Users |-> 0]

\* Locals of a request handler.  cnt is the handler's copy of chat.unreadCount
\* (only the keys the handler still uses), doc its copy of the message; late
\* records that the message was already deleted when the handler read it.
NewReq(kind, user, chat, msg) ==
  [kind |-> kind, user |-> user, chat |-> chat, msg |-> msg, pc |-> "done",
   status |-> 0, cnt |-> ZeroCnt, todo |-> <<>>, doc |-> NoMsg,
   content |-> "", snap |-> <<>>, client |-> None, late |-> FALSE]

inFlight(r) == reqs[r].pc # "done"
Idle == \A r \in Slots : ~inFlight(r)

\* a new request takes the lowest slot whose handler is over
slot == CHOOSE r \in Slots : ~inFlight(r) /\ \A q \in 1 .. (r - 1) : inFlight(q)
put(req) == [reqs EXCEPT ![slot] = req]

\* res.status(code).json(...) followed by return: the handler is over and only
\* the response is left (its body only for a client modelled in `screen`)
respond(req, code) ==
  [NewReq("none", None, None, 0) EXCEPT
     !.status = code, !.client = req.client,
     !.pc = IF req.client = None THEN "done" ELSE "reply",
     !.snap = IF req.client = None THEN <<>> ELSE req.snap]

\* ------------------------------------------------------------ socket server
\* token is the argument of the latest authenticate event the socket handled
NoConn == [state |-> "new", userId |-> None, rooms |-> {}, token |-> None]
\* the ChatScreen state: the open chat, the ids in `messages`, `isTyping`;
\* the HomeScreen state: the unreadCount of each entry of `chats`
NoScreen == [chat |-> None, messages |-> <<>>, isTyping |-> FALSE,
             unreadCount |-> [c \in Chats |-> 0]]

Event(kind, chatId, msg, sender, content, reactions) ==
  [kind |-> kind, chatId |-> chatId, msg |-> msg, sender |-> sender,
   content |-> content, reactions |-> reactions]

room_everyone(c) == {k \in Conns : conns[k].state = "live"}

\* the sockets currently in room c (Socket.IO adapter)
room(c) == {k \in Conns : conns[k].state = "live" /\ c \in conns[k].rooms}

\* io.to(c).emit(..) with except = {}; socket.to(c).emit(..) with except = {socket}
deliver(ev, to) ==
  /\ \A k \in to : Len(inbox[k]) < MaxInbox
  /\ inbox' = [k \in Conns |-> IF k \in to THEN Append(inbox[k], ev) ELSE inbox[k]]

emit(ev, except) == deliver(ev, room(ev.chatId) \ except)

\* `if (io) { io.to(chatId).emit(..) }` in the message routes
ioEmit(ev) == IF io THEN emit(ev, {}) ELSE UNCHANGED inbox

\* ----------------------------------- client: SocketService (constructor)
maxReconnectAttempts == 3
reconnectDelay == 2000
reconnectionDelayMax == 5000

SockIds == 1 .. MaxSockets

\* a socket made by io(url, options): its transport state, the rooms the server
\* has it in, the state of its authentication, the reconnection attempts the
\* Socket.IO client has made for it since it went down, the screens whose
\* new-message handler is registered on it
NoSock == [state |-> "unused", rooms |-> {}, auth |-> "none", retries |-> 0,
           handlers |-> {}]

\* socket is this.socket (0 for null); reconnectTimer is the delay of the
\* pending timeout (0 when none is pending); waiting counts connect() calls
\* suspended at `await AsyncStorage.getItem`; typingTimers is the set of chats
\* with a pending typing timeout, and typing the isTyping value of the latest
\* typing event emitted for each chat; mounted is the set of screens of the
\* app that are mounted.
NoService ==
  [socket |-> 0, isConnected |-> FALSE, reconnectAttempts |-> 0, reconnectTimer |-> 0,
   waiting |-> 0, socks |-> [n \in SockIds |-> NoSock],
   typingTimers |-> {}, typing |-> [c \in Chats |-> "none"], mounted |-> {}]

\* held is the set of rooms joined on the socket that dropped last (dropped:
\* there was such a drop), tries and fails count the reconnect attempts made
\* and the connection attempts failed since the last successful connect,
\* stopped holds from disconnect() to the caller's next call, rejected from an
\* authentication-error to the caller's next connect.
NoHistory ==
  [held |-> {}, dropped |-> FALSE, tries |-> 0, fails |-> 0,
   stopped |-> FALSE, rejected |-> FALSE]

Init ==
  /\ unreadCount = [c \in Chats |-> ZeroCnt]
  /\ lastMessage = [c \in Chats |-> 0]
  /\ msgs = [m \in MsgIds |-> NoMsg]
  /\ allocated = 0
  /\ reqs = [r \in Slots |-> NewReq("none", None, None, 0)]
  /\ conns = [k \in Conns |-> NoConn]
  /\ connectedUsers = [u \in Users |-> None]
  /\ inbox = [k \in Conns |-> <<>>]
  /\ screen = [k \in Conns |-> NoScreen]
  /\ io = FALSE
  /\ before = [c \in Chats |-> ZeroCnt]
  /\ svc = NoService
  /\ hist = NoHistory

\* setIO(socketIO): the message routes get the Socket.IO server
setIO ==
  /\ ~io
  /\ io' = TRUE
  /\ UNCHANGED <<dbVars, reqs, conns, connectedUsers, inbox, screen, before, svc, hist>>

\* --------------------------------------------------- POST /api/messages/:chatId
\* and POST /api/messages/:chatId/upload (same steps, fewer checks)

\* chat.incrementUnreadCount(userId) on the handler's copy of the chat:
\* currentCount = this.unreadCount.get(userId) || 0; set(userId, currentCount + 1)
incrementUnreadCount(cnt, u) == [cnt EXCEPT ![u] = cnt[u] + 1]

\* the entries of a handler's copy of unreadCount that the handler still reads
only(cnt, keep) == [u \in Users |-> IF u \in keep THEN cnt[u] ELSE 0]

\* validation, Chat.findById, participant / active / admin checks, new Message(..)
SendFind(u, c, content, kind) ==
  LET req0 == [NewReq(kind, u, c, 0) EXCEPT !.content = content] IN
  /\ kind \in {"send", "upload"}
  /\ IF content = ""
        THEN reqs' = put(respond(req0, 400)) /\ UNCHANGED allocated
     ELSE IF ~isParticipant(c, u)
        THEN reqs' = put(respond(req0, 403)) /\ UNCHANGED allocated
     ELSE IF kind = "send" /\ ~chatIsActive(c)
        THEN reqs' = put(respond(req0, 400)) /\ UNCHANGED allocated
     ELSE IF kind = "send" /\ chatType(c) = "group" /\ onlyAdminsCanSendMessages(c)
             /\ u \notin admins(c)
        THEN reqs' = put(respond(req0, 403)) /\ UNCHANGED allocated
     ELSE /\ allocated' = allocated + 1
          /\ reqs' = put([req0 EXCEPT !.msg = allocated + 1, !.pc = "presave",
                                     !.cnt = only(unreadCount[c], Range(otherParticipants(c, u))),
                                     !.todo = otherParticipants(c, u)])
  /\ UNCHANGED <<unreadCount, lastMessage, msgs, conns, connectedUsers, inbox, screen, io, svc, hist>>
  /\ before' = unreadCount

\* messageSchema.pre('save'): Chat.findByIdAndUpdate(this.chat, {lastMessage: this._id})
SendPreSave(r) ==
  /\ reqs[r].pc = "presave"
  /\ lastMessage' = [lastMessage EXCEPT ![reqs[r].chat] = reqs[r].msg]
  /\ reqs' = [reqs EXCEPT ![r].pc = "insert"]
  /\ UNCHANGED <<unreadCount, msgs, allocated, conns, connectedUsers, inbox, screen, io, before, svc, hist>>

\* message.save(): the document is inserted
SendInsert(r) ==
  /\ reqs[r].pc = "insert"
  /\ msgs' = [msgs EXCEPT ![reqs[r].msg] =
        [NoMsg EXCEPT !.chat = reqs[r].chat, !.sender = reqs[r].user,
                      !.content = IF reqs[r].kind = "upload" THEN "Sent a file"
                                  ELSE reqs[r].content,
                      !.mediaUrl = IF reqs[r].kind = "upload" THEN reqs[r].content ELSE "",
                      !.createdAt = Cardinality({m \in MsgIds : exists(m)}) + 1]]
  /\ reqs' = [reqs EXCEPT ![r].pc = IF reqs[r].todo = <<>> THEN "emit" ELSE "inc"]
  /\ UNCHANGED <<unreadCount, lastMessage, allocated, conns, connectedUsers, inbox, screen, io, before, svc, hist>>

\* one turn of `for (const participant of otherParticipants)
\*   await chat.incrementUnreadCount(participant.user)`: save() $sets the one key
SendInc(r) ==
  LET p == Head(reqs[r].todo)
      cnt2 == incrementUnreadCount(reqs[r].cnt, p) IN
  /\ reqs[r].pc = "inc"
  /\ unreadCount' = [unreadCount EXCEPT ![reqs[r].chat][p] = cnt2[p]]
  /\ reqs' = [reqs EXCEPT ![r].cnt = only(cnt2, Range(Tail(reqs[r].todo))),
                          ![r].todo = Tail(reqs[r].todo),
                          ![r].pc = IF Tail(reqs[r].todo) = <<>> THEN "emit" ELSE "inc"]
  /\ UNCHANGED <<lastMessage, msgs, allocated, conns, connectedUsers, inbox, screen, io, before, svc, hist>>

\* message.save() or a chat.incrementUnreadCount(..) rejects: the route's
\* catch block answers 500 and nothing is undone
SendFails(r) ==
  /\ reqs[r].kind \in {"send", "upload"}
  /\ reqs[r].pc \in {"insert", "inc"}
  /\ reqs' = [reqs EXCEPT ![r] = respond(reqs[r], 500)]
  /\ UNCHANGED <<dbVars, conns, connectedUsers, inbox, screen, io, before, svc, hist>>

\* res.status(201).json(..); io.to(chatId).emit('new-message', ..)
SendEmit(r) ==
  /\ reqs[r].pc = "emit"
  /\ reqs[r].kind \in {"send", "upload"}
  /\ reqs' = [reqs EXCEPT ![r] = respond(reqs[r], 201)]
  /\ ioEmit(Event("new-message", reqs[r].chat, reqs[r].msg, reqs[r].user,
                  msgs[reqs[r].msg].content, <<>>))
  /\ UNCHANGED <<dbVars, conns, connectedUsers, screen, io, before, svc, hist>>

\* ---------------------------------------------------- GET /api/messages/:chatId

RECURSIVE SortByCreated(_)
\* ids of a set of stored messages in createdAt order
SortByCreated(S) ==
  IF S = {} THEN <<>>
  ELSE LET m == CHOOSE x \in S : \A y \in S : msgs[x].createdAt <= msgs[y].createdAt
       IN <<m>> \o SortByCreated(S \ {m})

\* Message.getChatMessages(chatId): find({chat, isDeleted: false}), newest first,
\* reversed by the route into chronological order
getChatMessages(c) ==
  SortByCreated({m \in MsgIds : exists(m) /\ msgs[m].chat = c /\ ~msgs[m].isDeleted})

\* the filter shared by Message.getUnreadCount and Message.markChatAsRead
unreadFilter(m, c, u) ==
  /\ exists(m)
  /\ msgs[m].chat = c
  /\ msgs[m].sender # u
  /\ ~msgs[m].isDeleted
  /\ u \notin Range(msgs[m].readBy)

\* Message.getUnreadCount(chatId, userId): countDocuments(filter)
getUnreadCount(c, u) == Cardinality({m \in MsgIds : unreadFilter(m, c, u)})

\* Message.markChatAsRead(chatId, userId): updateMany(filter, {$push: {readBy: ..}})
markChatAsRead(c, u) ==
  [m \in MsgIds |-> IF unreadFilter(m, c, u)
                      THEN [msgs[m] EXCEPT !.readBy = Append(@, u)]
                      ELSE msgs[m]]

\* chat.resetUnreadCount(userId): this.unreadCount.set(userId, 0)
resetUnreadCount(cnt, u) == [cnt EXCEPT ![u] = 0]

\* Chat.findById and the participant check; k is the client whose ChatScreen
\* fetches (None when the request does not come from a modelled screen)
ReadStart(u, c, k) ==
  LET req0 == [NewReq("read", u, c, 0) EXCEPT !.client = k] IN
  IF ~isParticipant(c, u)
     THEN put(respond(req0, 403))
     ELSE put([req0 EXCEPT !.pc = "get", !.cnt = only(unreadCount[c], {u})])

ReadFind(u, c, k) ==
  /\ reqs' = ReadStart(u, c, k)
  /\ UNCHANGED <<dbVars, conns, connectedUsers, inbox, screen, io, svc, hist>>
  /\ before' = unreadCount

ReadGet(r) ==
  /\ reqs[r].pc = "get"
  /\ reqs' = [reqs EXCEPT ![r].snap = getChatMessages(reqs[r].chat), ![r].pc = "mark"]
  /\ UNCHANGED <<dbVars, conns, connectedUsers, inbox, screen, io, before, svc, hist>>

ReadMark(r) ==
  /\ reqs[r].pc = "mark"
  /\ msgs' = markChatAsRead(reqs[r].chat, reqs[r].user)
  /\ reqs' = [reqs EXCEPT ![r].pc = "reset"]
  /\ UNCHANGED <<unreadCount, lastMessage, allocated, conns, connectedUsers, inbox, screen, io, before, svc, hist>>

\* save() after unreadCount.set(userId, 0).  When the handler's copy already
\* holds 0 for the key, Mongoose versions differ on whether the key counts as
\* modified, so the write may or may not be sent.
ReadReset(r) ==
  LET u == reqs[r].user
      cnt2 == resetUnreadCount(reqs[r].cnt, u) IN
  /\ reqs[r].pc = "reset"
  /\ \E write \in (IF reqs[r].cnt[u] = cnt2[u] THEN {TRUE, FALSE} ELSE {TRUE}) :
       unreadCount' = IF write THEN [unreadCount EXCEPT ![reqs[r].chat][u] = cnt2[u]]
                      ELSE unreadCount
  /\ reqs' = [reqs EXCEPT ![r].cnt = ZeroCnt, ![r].pc = "emit"]
  /\ UNCHANGED <<lastMessage, msgs, allocated, conns, connectedUsers, inbox, screen, io, before, svc, hist>>

\* io.to(chatId).emit('messages-read', ..); res.json(..)
ReadEmit(r) ==
  /\ reqs[r].pc = "emit"
  /\ reqs[r].kind = "read"
  /\ reqs' = [reqs EXCEPT ![r] = respond(reqs[r], 200)]
  /\ ioEmit(Event("messages-read", reqs[r].chat, 0, reqs[r].user, "", <<>>))
  /\ UNCHANGED <<dbVars, conns, connectedUsers, screen, io, before, svc, hist>>

\* ------------------------------------------------ DELETE /api/messages/:messageId

\* message.softDelete(userId); deletedAt and deletedBy are read by no route
softDelete(doc, u) == [doc EXCEPT !.isDeleted = TRUE]

\* Message.findById, Chat.findById, sender-or-admin check, already-deleted check
DeleteFind(u, m) ==
  LET req0 == NewReq("delete", u, None, m)
      isSender == msgs[m].sender = u
      isAdmin == chatType(msgs[m].chat) = "group" /\ u \in admins(msgs[m].chat) IN
  /\ m \in 1 .. allocated
  /\ IF ~exists(m)
        THEN reqs' = put(respond(req0, 404))
     ELSE IF ~isSender /\ ~isAdmin
        THEN reqs' = put(respond([req0 EXCEPT !.chat = msgs[m].chat], 403))
     ELSE IF msgs[m].isDeleted
        THEN reqs' = put(respond([req0 EXCEPT !.chat = msgs[m].chat], 400))
     ELSE reqs' = put([req0 EXCEPT !.chat = msgs[m].chat, !.pc = "save",
                                           !.doc = msgs[m]])
  /\ UNCHANGED <<dbVars, conns, connectedUsers, inbox, screen, io, svc, hist>>
  /\ before' = unreadCount

\* save() $sets the paths softDelete modified
DeleteSave(r) ==
  LET m == reqs[r].msg
      doc2 == softDelete(reqs[r].doc, reqs[r].user) IN
  /\ reqs[r].pc = "save"
  /\ reqs[r].kind = "delete"
  /\ msgs' = [msgs EXCEPT ![m].isDeleted = doc2.isDeleted]
  /\ reqs' = [reqs EXCEPT ![r].doc = doc2,
                          ![r].pc = IF doc2.mediaUrl # "" THEN "unlink" ELSE "emit"]
  /\ UNCHANGED <<unreadCount, lastMessage, allocated, conns, connectedUsers, inbox, screen, io, before, svc, hist>>

\* await deleteFile(message.mediaUrl), errors only logged
DeleteUnlink(r) ==
  /\ reqs[r].pc = "unlink"
  /\ reqs' = [reqs EXCEPT ![r].pc = "emit"]
  /\ UNCHANGED <<dbVars, conns, connectedUsers, inbox, screen, io, before, svc, hist>>

\* res.json(..); io.to(chatId).emit('message-deleted', ..)
DeleteEmit(r) ==
  /\ reqs[r].pc = "emit"
  /\ reqs[r].kind = "delete"
  /\ reqs' = [reqs EXCEPT ![r] = respond(reqs[r], 200)]
  /\ ioEmit(Event("message-deleted", reqs[r].chat, reqs[r].msg, reqs[r].user, "", <<>>))
  /\ UNCHANGED <<dbVars, conns, connectedUsers, screen, io, before, svc, hist>>

\* --------------------------------------------------- PUT /api/messages/:messageId

\* message.editMessage(newContent)
editMessage(doc, newContent) == [doc EXCEPT !.content = newContent, !.isEdited = TRUE]

\* content check, Message.findById, sender check, deleted check
EditFind(u, m, content) ==
  LET req0 == [NewReq("edit", u, None, m) EXCEPT !.content = content,
                                                 !.late = msgs[m].isDeleted] IN
  /\ m \in 1 .. allocated
  /\ IF content = ""
        THEN reqs' = put(respond(req0, 400))
     ELSE IF ~exists(m)
        THEN reqs' = put(respond(req0, 404))
     ELSE IF msgs[m].sender # u
        THEN reqs' = put(respond([req0 EXCEPT !.chat = msgs[m].chat], 403))
     ELSE IF msgs[m].isDeleted
        THEN reqs' = put(respond([req0 EXCEPT !.chat = msgs[m].chat], 400))
     ELSE reqs' = put([req0 EXCEPT !.chat = msgs[m].chat, !.pc = "save",
                                           !.doc = msgs[m]])
  /\ UNCHANGED <<dbVars, conns, connectedUsers, inbox, screen, io, svc, hist>>
  /\ before' = unreadCount

\* save() $sets the paths whose value editMessage changed on the handler's copy
EditSave(r) ==
  LET m == reqs[r].msg
      doc2 == editMessage(reqs[r].doc, reqs[r].content) IN
  /\ reqs[r].pc = "save"
  /\ reqs[r].kind = "edit"
  /\ msgs' = [msgs EXCEPT ![m].content = IF doc2.content # reqs[r].doc.content
                                           THEN doc2.content ELSE @,
                          ![m].isEdited = IF doc2.isEdited # reqs[r].doc.isEdited
                                           THEN doc2.isEdited ELSE @]
  /\ reqs' = [reqs EXCEPT ![r].doc = doc2, ![r].pc = "populate"]
  /\ UNCHANGED <<unreadCount, lastMessage, allocated, conns, connectedUsers, inbox, screen, io, before, svc, hist>>

\* Message.findById(messageId).populate(..); res.json(..); emit('message-updated')
EditPopulate(r) ==
  LET m == reqs[r].msg IN
  /\ reqs[r].pc = "populate"
  /\ reqs[r].kind = "edit"
  /\ reqs' = [reqs EXCEPT ![r] = respond(reqs[r], 200)]
  /\ ioEmit(Event("message-updated", reqs[r].chat, m, reqs[r].user,
                  msgs[m].content, msgs[m].reactions))
  /\ UNCHANGED <<dbVars, conns, connectedUsers, screen, io, before, svc, hist>>

\* ------------------------------------ POST / DELETE /api/messages/:messageId/reactions

RECURSIVE withoutUser(_, _)
\* reactions.filter(reaction => reaction.user !== userId)
withoutUser(rs, u) ==
  IF rs = <<>> THEN <<>>
  ELSE IF Head(rs).user = u THEN withoutUser(Tail(rs), u)
       ELSE <<Head(rs)>> \o withoutUser(Tail(rs), u)

\* message.addReaction(userId, emoji) on the handler's copy
addReaction(doc, u, emoji) ==
  [doc EXCEPT !.reactions = Append(withoutUser(doc.reactions, u), [user |-> u, emoji |-> emoji])]

\* message.removeReaction(userId) on the handler's copy
removeReaction(doc, u) == [doc EXCEPT !.reactions = withoutUser(doc.reactions, u)]

\* emoji check, Message.findById, deleted check
ReactFind(u, m, emoji) ==
  LET req0 == [NewReq("react", u, None, m) EXCEPT !.content = emoji,
                                                  !.late = msgs[m].isDeleted] IN
  /\ m \in 1 .. allocated
  /\ msgs[m].v < MaxVersion
  /\ IF emoji = ""
        THEN reqs' = put(respond(req0, 400))
     ELSE IF ~exists(m)
        THEN reqs' = put(respond(req0, 404))
     ELSE IF msgs[m].isDeleted
        THEN reqs' = put(respond([req0 EXCEPT !.chat = msgs[m].chat], 400))
     ELSE reqs' = put([req0 EXCEPT !.chat = msgs[m].chat, !.pc = "save",
                                           !.doc = msgs[m]])
  /\ UNCHANGED <<dbVars, conns, connectedUsers, inbox, screen, io, svc, hist>>
  /\ before' = unreadCount

\* save() of a changed reactions array.  Replacing the array (the filter dropped
\* an element) is sent as $set of the whole array guarded by the document version
\* __v, and a stale version raises VersionError (caught: 500).  When the filter
\* dropped nothing the array path is unmodified and only the push is sent, as an
\* atomic $push.  Both increment __v.
ReactSave(r) ==
  LET m == reqs[r].msg
      doc2 == addReaction(reqs[r].doc, reqs[r].user, reqs[r].content)
      replaced == withoutUser(reqs[r].doc.reactions, reqs[r].user) # reqs[r].doc.reactions IN
  /\ reqs[r].pc = "save"
  /\ reqs[r].kind = "react"
  /\ IF replaced /\ msgs[m].v # reqs[r].doc.v
        THEN /\ reqs' = [reqs EXCEPT ![r] = respond(reqs[r], 500)]
             /\ UNCHANGED msgs
        ELSE /\ msgs' = [msgs EXCEPT ![m].reactions =
                           IF replaced THEN doc2.reactions
                           ELSE Append(@, [user |-> reqs[r].user, emoji |-> reqs[r].content]),
                                     ![m].v = @ + 1]
             /\ reqs' = [reqs EXCEPT ![r].doc = doc2, ![r].pc = "populate"]
  /\ UNCHANGED <<unreadCount, lastMessage, allocated, conns, connectedUsers, inbox, screen, io, before, svc, hist>>

\* Message.findById(..).populate(..); res.json(..); emit('message-reaction-added')
\* with message: updatedMessage
ReactPopulate(r) ==
  LET m == reqs[r].msg IN
  /\ reqs[r].pc = "populate"
  /\ reqs[r].kind = "react"
  /\ reqs' = [reqs EXCEPT ![r] = respond(reqs[r], 200)]
  /\ ioEmit(Event("message-reaction-added", reqs[r].chat, m, reqs[r].user,
                  msgs[m].content, msgs[m].reactions))
  /\ UNCHANGED <<dbVars, conns, connectedUsers, screen, io, before, svc, hist>>

\* Message.findById only: no deleted check in this route
UnreactFind(u, m) ==
  LET req0 == [NewReq("unreact", u, None, m) EXCEPT !.late = msgs[m].isDeleted] IN
  /\ m \in 1 .. allocated
  /\ msgs[m].v < MaxVersion
  /\ IF ~exists(m)
        THEN reqs' = put(respond(req0, 404))
        ELSE reqs' = put([req0 EXCEPT !.chat = msgs[m].chat, !.pc = "save",
                                              !.doc = msgs[m]])
  /\ UNCHANGED <<dbVars, conns, connectedUsers, inbox, screen, io, svc, hist>>
  /\ before' = unreadCount

\* save() after removeReaction: nothing to send when the filter dropped nothing
UnreactSave(r) ==
  LET m == reqs[r].msg
      doc2 == removeReaction(reqs[r].doc, reqs[r].user)
      replaced == doc2.reactions # reqs[r].doc.reactions IN
  /\ reqs[r].pc = "save"
  /\ reqs[r].kind = "unreact"
  /\ IF replaced /\ msgs[m].v # reqs[r].doc.v
        THEN /\ reqs' = [reqs EXCEPT ![r] = respond(reqs[r], 500)]
             /\ UNCHANGED msgs
        ELSE /\ msgs' = IF replaced
                          THEN [msgs EXCEPT ![m].reactions = doc2.reactions, ![m].v = @ + 1]
                          ELSE msgs
             /\ reqs' = [reqs EXCEPT ![r].doc = doc2, ![r].pc = "populate"]
  /\ UNCHANGED <<unreadCount, lastMessage, allocated, conns, connectedUsers, inbox, screen, io, before, svc, hist>>

\* Message.findById(..).populate(..); res.json(..); emit('message-reaction-removed')
\* with message: message (the handler's copy)
UnreactPopulate(r) ==
  /\ reqs[r].pc = "populate"
  /\ reqs[r].kind = "unreact"
  /\ ioEmit(Event("message-reaction-removed", reqs[r].chat, reqs[r].msg, reqs[r].user,
                  reqs[r].doc.content, reqs[r].doc.reactions))
  /\ reqs' = [reqs EXCEPT ![r] = respond(reqs[r], 200)]
  /\ UNCHANGED <<dbVars, conns, connectedUsers, screen, io, before, svc, hist>>

\* ---------------------------------------------- socket server (io.on('connection'))

\* the user logged in on the client behind each socket
owner(k) == IF k = "k1" THEN "u1" ELSE "u2"

\* a client's socket connects (a client whose socket was closed connects anew)
Connect(k) ==
  /\ conns[k].state # "live"
  /\ conns' = [conns EXCEPT ![k] = [NoConn EXCEPT !.state = "live"]]
  /\ UNCHANGED <<dbVars, reqs, connectedUsers, inbox, screen, io, before, svc, hist>>

\* the tokens a client may present: one that verifies for a user, or one that
\* does not (invalid or expired)
Tokens == Users \cup {"bad"}

verify_any(token) == IF token \in Users THEN token ELSE "u1"

\* jwt.verify(token, JWT_SECRET).userId, or None when verify throws
verify(token) == IF token \in Users THEN token ELSE None

\* socket.on('authenticate', token): a token that verifies binds the user to
\* the socket; one that does not is only logged
Authenticate(k, token) ==
  /\ conns[k].state = "live"
  /\ IF verify(token) # None
        THEN /\ connectedUsers' = [connectedUsers EXCEPT ![verify(token)] = k]
             /\ conns' = [conns EXCEPT ![k].userId = verify(token), ![k].token = token]
        ELSE /\ conns' = [conns EXCEPT ![k].token = token]
             /\ UNCHANGED connectedUsers
  /\ UNCHANGED <<dbVars, reqs, inbox, screen, io, before, svc, hist>>

\* socket.on('join-chat', chatId): socket.join(chatId)
JoinChat(k, c) ==
  /\ conns[k].state = "live"
  /\ conns' = [conns EXCEPT ![k].rooms = @ \cup {c}]
  /\ UNCHANGED <<dbVars, reqs, connectedUsers, inbox, screen, io, before, svc, hist>>

\* socket.on('leave-chat', chatId): socket.leave(chatId)
LeaveChat(k, c) ==
  /\ conns[k].state = "live"
  /\ conns' = [conns EXCEPT ![k].rooms = @ \ {c}]
  /\ UNCHANGED <<dbVars, reqs, connectedUsers, inbox, screen, io, before, svc, hist>>

\* socket.on('send-message', {chatId, message}):
\* socket.to(chatId).emit('new-message', {chatId, message, sender: socket.userId})
SendMessage(k, c, m) ==
  /\ conns[k].state = "live"
  /\ emit(Event("new-message", c, m, conns[k].userId, "hi", <<>>), {k})
  /\ UNCHANGED <<dbVars, reqs, conns, connectedUsers, screen, io, before, svc, hist>>

\* socket.on('typing', {chatId, isTyping}):
\* socket.to(chatId).emit('user-typing', {chatId, userId: socket.userId, isTyping})
Typing(k, c, isTyping) ==
  /\ conns[k].state = "live"
  /\ emit(Event("user-typing", c, 0, conns[k].userId,
                IF isTyping THEN "true" ELSE "false", <<>>), {k})
  /\ UNCHANGED <<dbVars, reqs, conns, connectedUsers, screen, io, before, svc, hist>>

closed_keepRooms(conn) == [conn EXCEPT !.state = "closed", !.userId = None, !.token = None]

\* the socket after its disconnect: Socket.IO has removed it from every room
closed(conn) == [NoConn EXCEPT !.state = "closed"]

\* socket.on('disconnect'): the socket leaves its rooms; if it was authenticated
\* its user is dropped from connectedUsers and the others are told
Disconnect(k) ==
  /\ conns[k].state = "live"
  /\ conns' = [conns EXCEPT ![k] = closed(conns[k])]
  /\ IF conns[k].userId # None
        THEN /\ connectedUsers' = [connectedUsers EXCEPT ![conns[k].userId] = None]
             /\ \A j \in Conns \ {k} : conns[j].state = "live" => Len(inbox[j]) < MaxInbox
             /\ inbox' = [j \in Conns |->
                  IF j = k THEN <<>>
                  ELSE IF conns[j].state = "live"
                  THEN Append(inbox[j], Event("user-status-change", None, 0, conns[k].userId, "offline", <<>>))
                  ELSE inbox[j]]
        ELSE /\ inbox' = [inbox EXCEPT ![k] = <<>>]
             /\ UNCHANGED connectedUsers
  /\ UNCHANGED <<dbVars, reqs, screen, io, before, svc, hist>>

\* ------------------------------------------------------- client: ChatScreen

\* the screen's initial list (ids that no stored message has)
mockMessages == <<-1, -2, -3, -4, -5, -6, -7>>

\* the screen is opened on chat c: useState(mockMessages), fetchMessages()
MountChat(k, c) ==
  /\ screen[k].chat = None
  /\ \E r \in Slots : ~inFlight(r)
  /\ screen' = [screen EXCEPT ![k].chat = c, ![k].messages = mockMessages,
                            ![k].isTyping = FALSE]
  /\ reqs' = ReadStart(owner(k), c, k)
  /\ before' = unreadCount
  /\ UNCHANGED <<dbVars, conns, connectedUsers, inbox, io, svc, hist>>

\* fetchMessages after `await apiService.getMessages(chatId)`:
\* setMessages(response.messages || []) on success, an alert otherwise
FetchResponse(k) ==
  \E r \in Slots :
    /\ reqs[r].pc = "reply" /\ reqs[r].client = k
    /\ screen' = IF reqs[r].status = 200
                    THEN [screen EXCEPT ![k].messages = reqs[r].snap]
                    ELSE screen
    /\ reqs' = [reqs EXCEPT ![r] = respond([reqs[r] EXCEPT !.client = None], reqs[r].status)]
    /\ UNCHANGED <<dbVars, conns, connectedUsers, inbox, io, before, svc, hist>>

\* messageHandler, registered while the screen is open:
\* if (data.chatId === chatId) setMessages(prev => [...prev, newMessage])
messageHandler(k, data) ==
  IF screen[k].chat # None /\ data.chatId = screen[k].chat
     THEN [screen EXCEPT ![k].messages = Append(@, data.msg)]
     ELSE screen

\* a new-message event reaches the client
ReceiveNewMessage(k) ==
  /\ inbox[k] # <<>>
  /\ Head(inbox[k]).kind = "new-message"
  /\ Len(screen[k].messages) < Len(mockMessages) + MaxShown
  /\ screen' = messageHandler(k, Head(inbox[k]))
  /\ inbox' = [inbox EXCEPT ![k] = Tail(@)]
  /\ UNCHANGED <<dbVars, reqs, conns, connectedUsers, io, before, svc, hist>>

\* typingStartHandler: if (data.chatId === chatId && data.userId !== user?._id)
\* setIsTyping(true)
typingStartHandler(k, data) ==
  IF data.chatId = screen[k].chat /\ data.sender # owner(k)
     THEN [screen EXCEPT ![k].isTyping = TRUE]
     ELSE screen

\* a user-typing event reaches the client.  services/socket.js registers the
\* screen's typingStartHandler for 'user-typing'; the SocketService of
\* part_006 registers it for 'typing-indicator', and then no handler runs
\* (listens = FALSE).  typingStopHandler is registered for 'user-stop-typing',
\* which the server never emits.
ReceiveTyping(k, listens) ==
  /\ inbox[k] # <<>>
  /\ Head(inbox[k]).kind = "user-typing"
  /\ screen' = IF listens /\ screen[k].chat # None
                  THEN typingStartHandler(k, Head(inbox[k]))
                  ELSE screen
  /\ inbox' = [inbox EXCEPT ![k] = Tail(@)]
  /\ UNCHANGED <<dbVars, reqs, conns, connectedUsers, io, before, svc, hist>>

\* HomeScreen handleNewMessage: the entry whose id is data.chatId gets
\* unreadCount: chat.unreadCount + 1
handleNewMessage(k, data) ==
  [screen EXCEPT ![k].unreadCount[data.chatId] = @ + 1]

\* an event reaches a client whose home screen holds the handlers.  The screen
\* handles new-message; its handleChatRead is registered for 'chat-read', which
\* the server never emits, and nothing is registered for messages-read.
HomeReceive(k) ==
  /\ inbox[k] # <<>>
  /\ screen' = IF Head(inbox[k]).kind = "new-message"
                  THEN handleNewMessage(k, Head(inbox[k]))
                  ELSE screen
  /\ inbox' = [inbox EXCEPT ![k] = Tail(@)]
  /\ UNCHANGED <<dbVars, reqs, conns, connectedUsers, io, before, svc, hist>>

\* any other event reaches the client; its handlers leave the list of ids alone
ReceiveOther(k) ==
  /\ inbox[k] # <<>>
  /\ Head(inbox[k]).kind \notin {"new-message", "user-typing"}
  /\ inbox' = [inbox EXCEPT ![k] = Tail(@)]
  /\ UNCHANGED <<dbVars, reqs, conns, connectedUsers, screen, io, before, svc, hist>>

\* ------------------------------------------- client: SocketService (methods)

\* what the client's actions leave alone
serverVars == <<dbVars, reqs, conns, connectedUsers, inbox, screen, io, before>>

Pow2(n) == 2 ^ n

\* scheduleReconnect(): the pending timeout is cleared; a new one is set only
\* while reconnectAttempts < maxReconnectAttempts
scheduleReconnect(s) ==
  IF s.reconnectAttempts < maxReconnectAttempts
     THEN [s EXCEPT !.reconnectTimer = reconnectDelay * Pow2(s.reconnectAttempts)]
     ELSE [s EXCEPT !.reconnectTimer = 0]

\* connect() up to `await AsyncStorage.getItem('authToken')`
connectEntry(s) ==
  IF s.socket # 0 /\ s.isConnected THEN s ELSE [s EXCEPT !.waiting = @ + 1]

\* disconnect(): the timer is cleared, the socket closed and forgotten, the
\* typing timers cleared
disconnectBody(s) ==
  LET t == [s EXCEPT !.reconnectTimer = 0, !.typingTimers = {}] IN
  IF s.socket = 0 THEN t
  ELSE [t EXCEPT !.socks[s.socket] = [NoSock EXCEPT !.state = "closed"],
                 !.socket = 0, !.isConnected = FALSE]

\* a caller (a screen, the auth context) calls connect()
connect ==
  /\ svc.waiting < MaxPending
  /\ svc' = connectEntry(svc)
  /\ UNCHANGED serverVars

\* the slot of the next socket: sockets that were closed or given up take no
\* further part and their slots are used again
fresh(s) == {n \in SockIds : s.socks[n].state \in {"unused", "closed", "failed"}}
nextSocket(s) == CHOOSE n \in fresh(s) : \A m \in fresh(s) : n <= m

\* connect() after the await: without a token it returns; with one it makes a
\* new socket and assigns it to this.socket
connectResume(hasToken) ==
  /\ svc.waiting > 0
  /\ IF hasToken
        THEN /\ fresh(svc) # {}
             /\ svc' = [svc EXCEPT !.waiting = @ - 1,
                                   !.socket = nextSocket(svc),
                                   !.socks[nextSocket(svc)] = [NoSock EXCEPT !.state = "connecting"]]
        ELSE svc' = [svc EXCEPT !.waiting = @ - 1]
  /\ UNCHANGED serverVars

\* socket.on('connect') of socket n, at its first connection or when the
\* Socket.IO client has reconnected it.  The handler reads this.socket.id first
\* and throws when this.socket is null.
onConnect(n) ==
  /\ svc.socks[n].state \in {"connecting", "down"}
  /\ LET up == [svc EXCEPT !.socks[n].state = "connected", !.socks[n].retries = 0] IN
     svc' = IF svc.socket = 0 THEN up
            ELSE [up EXCEPT !.isConnected = TRUE, !.reconnectAttempts = 0,
                            !.reconnectTimer = 0,
                            !.socks[svc.socket].auth = "sent"]
  /\ UNCHANGED serverVars

\* socket.on('disconnect', reason) of socket n after an unexpected drop: the
\* server has forgotten the socket's rooms and user
onDisconnect(n) ==
  /\ svc.socks[n].state = "connected"
  /\ svc' = scheduleReconnect([svc EXCEPT !.socks[n] =
                                            [NoSock EXCEPT !.state = "down",
                                                           !.handlers = svc.socks[n].handlers],
                                          !.isConnected = FALSE])
  /\ UNCHANGED serverVars

\* socket.on('connect_error') of socket n.  For a socket that was down this is
\* a failed reconnection attempt of the Socket.IO client, which gives up after
\* reconnectionAttempts of them; legacy says whether this client version also
\* fires reconnect_error (reconnectAttempts++) and reconnect_failed
\* (reconnectAttempts = 0) on the socket.
onConnectError(n, legacy) ==
  /\ svc.socks[n].state \in {"connecting", "down"}
  /\ LET retry == svc.socks[n].state = "down"
         last == retry /\ svc.socks[n].retries + 1 = maxReconnectAttempts
         s1 == scheduleReconnect([svc EXCEPT !.isConnected = FALSE])
         s2 == [s1 EXCEPT !.socks[n] =
                  IF last THEN [NoSock EXCEPT !.state = "failed"]
                  ELSE [NoSock EXCEPT !.state = "down",
                                      !.handlers = svc.socks[n].handlers,
                                      !.retries = IF retry THEN svc.socks[n].retries + 1 ELSE 0]]
     IN svc' = IF ~(retry /\ legacy) THEN s2
               ELSE IF last THEN [s2 EXCEPT !.reconnectAttempts = 0]
               ELSE [s2 EXCEPT !.reconnectAttempts = @ + 1]
  /\ UNCHANGED serverVars

\* the reconnect timeout fires: if (!this.isConnected) this.connect()
timerFires ==
  /\ svc.reconnectTimer # 0
  /\ svc.waiting < MaxPending
  /\ svc' = IF svc.isConnected THEN [svc EXCEPT !.reconnectTimer = 0]
            ELSE [connectEntry(svc) EXCEPT !.reconnectTimer = 0]
  /\ UNCHANGED serverVars

\* a caller calls disconnect()
disconnect ==
  /\ svc' = disconnectBody(svc)
  /\ UNCHANGED serverVars

\* a caller calls joinChat(chatId): join-chat is emitted on this.socket when
\* the service is connected; otherwise reconnectWithToken() runs (disconnect(),
\* then connect())
joinChat(c) ==
  /\ svc.waiting < MaxPending
  /\ svc' = IF svc.socket # 0 /\ svc.isConnected
               THEN [svc EXCEPT !.socks[svc.socket].rooms =
                          IF svc.socks[svc.socket].state \in {"connecting", "connected"}
                             THEN @ \cup {c} ELSE @]
               ELSE connectEntry(disconnectBody(svc))
  /\ UNCHANGED serverVars

\* socket.on('authentication-error') of socket n: this.socket.userId = null
\* (the handler throws when this.socket is null)
onAuthenticationError(n) ==
  /\ svc.socks[n].state = "connected"
  /\ svc.socks[n].auth = "sent"
  /\ svc.socket # 0
  /\ svc' = [svc EXCEPT !.socks[svc.socket].auth = "rejected"]
  /\ UNCHANGED serverVars

\* socket.on('authenticated') of socket n: this.socket.userId = data.userId
\* (the handler throws when this.socket is null)
onAuthenticated(n) ==
  /\ svc.socks[n].state = "connected"
  /\ svc.socks[n].auth = "sent"
  /\ svc.socket # 0
  /\ svc' = [svc EXCEPT !.socks[svc.socket].auth = "acked"]
  /\ UNCHANGED serverVars

\* a screen calls sendTyping(chatId, isTyping)
sendTyping(c, isTyping) ==
  /\ svc.socket # 0 /\ svc.isConnected
  /\ svc' = IF isTyping
               THEN [svc EXCEPT !.typing[c] = "true", !.typingTimers = @ \cup {c}]
               ELSE [svc EXCEPT !.typing[c] = "false", !.typingTimers = @ \ {c}]
  /\ UNCHANGED serverVars

\* the typing timeout of chat c fires: typing false is emitted on this.socket
\* (the callback throws when this.socket is null)
typingTimerFires(c) ==
  /\ c \in svc.typingTimers
  /\ svc' = IF svc.socket = 0 THEN svc
            ELSE [svc EXCEPT !.typing[c] = "false", !.typingTimers = @ \ {c}]
  /\ svc' # svc
  /\ UNCHANGED serverVars

\* onNewMessage(callback) called by a screen: nothing without a socket;
\* otherwise this.socket.off('new-message') and then this.socket.on(..).
\* services/socket.js registers without the off (adds = TRUE).
onNewMessage(s, scr, adds) ==
  IF s.socket = 0 THEN s
  ELSE [s EXCEPT !.socks[s.socket].handlers = IF adds THEN @ \cup {scr} ELSE {scr}]

\* removeListener('new-message'): this.socket.off('new-message')
removeListener(s) ==
  IF s.socket = 0 THEN s ELSE [s EXCEPT !.socks[s.socket].handlers = {}]

\* HomeScreen mounts: initializeSocket() runs up to the await inside connect(),
\* then the effect registers handleNewMessage
mountHome ==
  /\ "home" \notin svc.mounted
  /\ svc.waiting < MaxPending
  /\ svc' = [onNewMessage(connectEntry(svc), "home", FALSE) EXCEPT !.mounted = @ \cup {"home"}]
  /\ UNCHANGED serverVars

\* HomeScreen unmounts: the effect's cleanup
unmountHome ==
  /\ "home" \in svc.mounted
  /\ svc' = [removeListener(svc) EXCEPT !.mounted = @ \ {"home"}]
  /\ UNCHANGED serverVars

\* ChatScreen mounts: the effect registers messageHandler
mountChatScreen(adds) ==
  /\ "chat" \notin svc.mounted
  /\ svc' = [onNewMessage(svc, "chat", adds) EXCEPT !.mounted = @ \cup {"chat"}]
  /\ UNCHANGED serverVars

\* ChatScreen unmounts: the effect's cleanup
unmountChatScreen ==
  /\ "chat" \in svc.mounted
  /\ svc' = [removeListener(svc) EXCEPT !.mounted = @ \ {"chat"}]
  /\ UNCHANGED serverVars

\* ----------------------------------------------------------- the HTTP layer

FreeSlot == \E r \in Slots : ~inFlight(r)

\* the steps of the send, upload, read and delete handlers
LedgerStep(r) ==
  \/ SendPreSave(r) \/ SendInsert(r) \/ SendInc(r) \/ SendEmit(r)
  \/ ReadGet(r) \/ ReadMark(r) \/ ReadReset(r) \/ ReadEmit(r)
  \/ DeleteSave(r) \/ DeleteUnlink(r) \/ DeleteEmit(r)

\* the steps of the send handler
SendStep(r) == SendPreSave(r) \/ SendInsert(r) \/ SendInc(r) \/ SendEmit(r)

\* the steps of the edit, delete and reaction handlers
MsgStep(r) ==
  \/ DeleteSave(r) \/ DeleteUnlink(r) \/ DeleteEmit(r)
  \/ EditSave(r) \/ EditPopulate(r)
  \/ ReactSave(r) \/ ReactPopulate(r)
  \/ UnreactSave(r) \/ UnreactPopulate(r)

\* send, upload, read and delete requests handled one at a time: a request
\* arrives only when no handler is in progress
NextSeq ==
  \/ setIO
  \/ \E r \in Slots : LedgerStep(r)
  \/ /\ Idle /\ allocated < MaxMsgs
     /\ \E u \in Users, c \in Chats, t \in {"", "hi"}, k \in {"send", "upload"} : SendFind(u, c, t, k)
  \/ Idle /\ \E u \in Users, c \in Chats : ReadFind(u, c, None)
  \/ Idle /\ \E u \in Users, m \in MsgIds : DeleteFind(u, m)

SpecSeq == Init /\ [][NextSeq]_vars

\* concurrent senders only: nobody reads or deletes
NextSend ==
  \/ setIO
  \/ \E r \in Slots : SendStep(r)
  \/ /\ FreeSlot /\ allocated < MaxSends
     /\ \E u \in Users : SendFind(u, "c1", "hi", "send")

SpecSend == Init /\ [][NextSend]_vars

\* edit, delete and reaction requests on the messages of chat c1, concurrently
NextMsg ==
  \/ setIO
  \/ \E r \in Slots : SendStep(r) \/ MsgStep(r)
  \/ /\ FreeSlot /\ allocated < MaxEdited
     /\ \E u \in Users, k \in {"send", "upload"} : SendFind(u, "c1", "hi", k)
  \/ FreeSlot /\ \E u \in Users, m \in MsgIds, t \in {"", "yo"} : EditFind(u, m, t)
  \/ FreeSlot /\ \E u \in Users, m \in MsgIds : DeleteFind(u, m)
  \/ FreeSlot /\ \E u \in Users, m \in MsgIds, e \in Emojis : ReactFind(u, m, e)
  \/ FreeSlot /\ \E u \in Users, m \in MsgIds : UnreactFind(u, m)

SpecMsg == Init /\ [][NextMsg]_vars

\* the steps of the read handler
ReadStep(r) == ReadGet(r) \/ ReadMark(r) \/ ReadReset(r) \/ ReadEmit(r)

\* sockets and rooms: connect, authenticate, join, leave, disconnect, with the
\* HTTP send route and the socket relay as the two sources of new-message
NextRoom ==
  \/ setIO
  \/ \E r \in Slots : SendStep(r)
  \/ /\ FreeSlot /\ allocated < MaxPosted
     /\ \E u \in Users, c \in Chats : SendFind(u, c, "hi", "send")
  \/ \E k \in Conns : Connect(k)
  \/ \E k \in Conns : Authenticate(k, owner(k))
  \/ \E k \in Conns, c \in Chats : JoinChat(k, c)
  \/ \E k \in Conns, c \in Chats : LeaveChat(k, c)
  \/ \E k \in Conns, c \in Chats, m \in 1 .. MaxPosted : SendMessage(k, c, m)
  \/ \E k \in Conns : Disconnect(k)
  \/ \E k \in Conns : ReceiveNewMessage(k)
  \/ \E k \in Conns : ReceiveOther(k)

SpecRoom == Init /\ [][NextRoom]_vars

\* connections and presence: any client may present any user's token, so one
\* user may be behind both sockets
NextAuth ==
  \/ \E k \in Conns : Connect(k)
  \/ \E k \in Conns, token \in Tokens : Authenticate(k, token)
  \/ \E k \in Conns, c \in Chats : JoinChat(k, c)
  \/ \E k \in Conns, c \in Chats : LeaveChat(k, c)
  \/ \E k \in Conns : Disconnect(k)
  \/ \E k \in Conns : ReceiveOther(k)

SpecAuth == Init /\ [][NextAuth]_vars

\* the server handles every event it is sent and clients handle what they get
SpecAuthLive == SpecAuth /\ WF_vars(NextAuth)

\* the chat screen of the client behind k1: open the screen, fetch, join, and
\* receive what the HTTP send route and the relay of another socket emit
NextScreen ==
  \/ setIO
  \/ \E r \in Slots : SendStep(r) \/ ReadStep(r)
  \/ /\ FreeSlot /\ allocated < MaxPosted
     /\ \E u \in Users : SendFind(u, "c1", "hi", "send")
  \/ \E k \in Conns : Connect(k)
  \/ \E c \in Chats : JoinChat("k1", c)
  \/ \E k \in Conns, c \in Chats, m \in 1 .. MaxPosted : SendMessage(k, c, m)
  \/ \E c \in Chats : MountChat("k1", c)
  \/ \E k \in Conns : FetchResponse(k)
  \/ \E k \in Conns : ReceiveNewMessage(k)
  \/ \E k \in Conns : ReceiveOther(k)

SpecScreen == Init /\ [][NextScreen]_vars

\* the reconnection loop of the client: the app connects once, and from then
\* on only the transport and the timer act.  tries counts the timer-driven
\* connect() calls and fails the failed connection attempts since the last
\* successful connect.
NextBackoff ==
  \/ svc = NoService /\ connect /\ UNCHANGED hist
  \/ \E hasToken \in BOOLEAN : connectResume(hasToken) /\ UNCHANGED hist
  \/ \E n \in SockIds :
       onConnect(n) /\ hist' = [hist EXCEPT !.tries = 0, !.fails = 0]
  \/ \E n \in SockIds : onDisconnect(n) /\ UNCHANGED hist
  \/ \E n \in SockIds, legacy \in BOOLEAN :
       /\ hist.fails < MaxTries
       /\ onConnectError(n, legacy)
       /\ hist' = [hist EXCEPT !.fails = @ + 1]
  \/ /\ hist.tries < MaxTries
     /\ timerFires
     /\ hist' = [hist EXCEPT !.tries = IF svc.isConnected THEN @ ELSE @ + 1]

SpecBackoff == Init /\ [][NextBackoff]_vars

\* a client whose screens join rooms, and whose transport then drops and comes
\* back: the screens make no call after the drop.  held is the set of rooms
\* joined on this.socket when it dropped.
NextResub ==
  \/ svc = NoService /\ connect /\ UNCHANGED hist
  \/ connectResume(TRUE) /\ UNCHANGED hist
  \/ \E n \in SockIds : onConnect(n) /\ UNCHANGED hist
  \/ \E c \in Chats : ~hist.dropped /\ svc.isConnected /\ joinChat(c) /\ UNCHANGED hist
  \/ \E n \in SockIds :
       /\ onDisconnect(n)
       /\ hist' = IF n = svc.socket
                     THEN [hist EXCEPT !.dropped = TRUE, !.held = svc.socks[n].rooms]
                     ELSE hist
  \/ \E n \in SockIds, legacy \in BOOLEAN :
       /\ hist.fails < MaxErrors
       /\ onConnectError(n, legacy)
       /\ hist' = [hist EXCEPT !.fails = @ + 1]
  \/ timerFires /\ UNCHANGED hist

SpecResub == Init /\ [][NextResub]_vars

\* a client whose caller connects, joins rooms and disconnects at any time.
\* stopped holds from a disconnect() call to the caller's next connect() or
\* joinChat() call.
NextStop ==
  \/ connect /\ hist' = [hist EXCEPT !.stopped = FALSE]
  \/ \E hasToken \in BOOLEAN : connectResume(hasToken) /\ UNCHANGED hist
  \/ \E n \in SockIds : onConnect(n) /\ UNCHANGED hist
  \/ \E n \in SockIds : onDisconnect(n) /\ UNCHANGED hist
  \/ \E n \in SockIds, legacy \in BOOLEAN :
       /\ hist.fails < MaxErrors
       /\ onConnectError(n, legacy)
       /\ hist' = [hist EXCEPT !.fails = @ + 1]
  \/ timerFires /\ UNCHANGED hist
  \/ disconnect /\ hist' = [hist EXCEPT !.stopped = TRUE]
  \/ joinChat("c1") /\ hist' = [hist EXCEPT !.stopped = FALSE]

SpecStop == Init /\ [][NextStop]_vars

\* a client whose token the server rejects.  rejected holds from an
\* authentication-error to the caller's next connect() call.
NextReject ==
  \/ connect /\ hist' = [hist EXCEPT !.rejected = FALSE]
  \/ connectResume(TRUE) /\ UNCHANGED hist
  \/ \E n \in SockIds : onConnect(n) /\ UNCHANGED hist
  \/ \E n \in SockIds :
       onAuthenticationError(n) /\ hist' = [hist EXCEPT !.rejected = TRUE]
  \/ \E n \in SockIds : onDisconnect(n) /\ UNCHANGED hist
  \/ \E n \in SockIds, legacy \in BOOLEAN :
       /\ hist.fails < MaxErrors
       /\ onConnectError(n, legacy)
       /\ hist' = [hist EXCEPT !.fails = @ + 1]
  \/ timerFires /\ UNCHANGED hist

SpecReject == Init /\ [][NextReject]_vars

\* a client that connects, is acknowledged by the server, and whose screens
\* join rooms
NextActive ==
  \/ svc = NoService /\ connect /\ UNCHANGED hist
  \/ connectResume(TRUE) /\ UNCHANGED hist
  \/ \E n \in SockIds : onConnect(n) /\ UNCHANGED hist
  \/ \E n \in SockIds : onAuthenticated(n) /\ UNCHANGED hist
  \/ \E c \in Chats : svc.isConnected /\ joinChat(c) /\ UNCHANGED hist
  \/ \E n \in SockIds : onDisconnect(n) /\ UNCHANGED hist
  \/ timerFires /\ UNCHANGED hist

SpecActive == Init /\ [][NextActive]_vars

\* a client whose screen reports typing while the caller connects and
\* disconnects and the transport drops
NextTyping ==
  \/ connect /\ UNCHANGED hist
  \/ connectResume(TRUE) /\ UNCHANGED hist
  \/ \E n \in SockIds : onConnect(n) /\ UNCHANGED hist
  \/ \E n \in SockIds : onDisconnect(n) /\ UNCHANGED hist
  \/ timerFires /\ UNCHANGED hist
  \/ disconnect /\ UNCHANGED hist
  \/ \E c \in Chats, isTyping \in BOOLEAN : sendTyping(c, isTyping) /\ UNCHANGED hist
  \/ \E c \in Chats : typingTimerFires(c) /\ UNCHANGED hist

SpecTyping == Init /\ [][NextTyping]_vars

\* the typing indicator of the chat screen of the client behind k1: it opens
\* a chat and joins rooms, and the sockets send typing events
NextIndicator ==
  \/ \E r \in Slots : ReadStep(r)
  \/ \E k \in Conns : Connect(k)
  \/ \E k \in Conns : Authenticate(k, owner(k))
  \/ \E c \in Chats : JoinChat("k1", c)
  \/ \E c \in Chats : MountChat("k1", c)
  \/ \E k \in Conns : FetchResponse(k)
  \/ \E k \in Conns, c \in Chats, isTyping \in BOOLEAN : Typing(k, c, isTyping)
  \/ \E k \in Conns, listens \in BOOLEAN : ReceiveTyping(k, listens)

SpecIndicator == Init /\ [][NextIndicator]_vars

\* send requests handled one at a time, any of whose database writes may fail
NextFail ==
  \/ setIO
  \/ \E r \in Slots : SendStep(r)
  \/ \E r \in Slots : SendFails(r)
  \/ /\ Idle /\ allocated < MaxMsgs
     /\ \E u \in Users, c \in Chats : SendFind(u, c, "hi", "send")

SpecFail == Init /\ [][NextFail]_vars

\* users reacting to the messages of chat c1, the requests of different users
\* concurrently and those of one user one after another
NextReact ==
  \/ setIO
  \/ \E r \in Slots : SendStep(r)
  \/ /\ FreeSlot /\ allocated < MaxEdited
     /\ \E u \in Users : SendFind(u, "c1", "hi", "send")
  \/ /\ FreeSlot
     /\ \E u \in Users, m \in MsgIds, e \in {"+", "-"} :
          /\ \A q \in Slots : inFlight(q) => reqs[q].user # u
          /\ ReactFind(u, m, e)
  \/ \E r \in Slots : ReactSave(r)
  \/ \E r \in Slots : ReactPopulate(r)

SpecReact == Init /\ [][NextReact]_vars

\* the screens of a client and their new-message handlers: the home screen is
\* mounted once the service is connected, chat screens come and go, and the
\* transport drops and comes back
NextListeners ==
  \/ svc = NoService /\ connect /\ UNCHANGED hist
  \/ connectResume(TRUE) /\ UNCHANGED hist
  \/ \E n \in SockIds : onConnect(n) /\ UNCHANGED hist
  \/ \E n \in SockIds : onDisconnect(n) /\ UNCHANGED hist
  \/ timerFires /\ UNCHANGED hist
  \/ svc.socket # 0 /\ svc.isConnected /\ mountHome /\ UNCHANGED hist
  \/ unmountHome /\ UNCHANGED hist
  \/ \E adds \in BOOLEAN : mountChatScreen(adds) /\ UNCHANGED hist
  \/ unmountChatScreen /\ UNCHANGED hist

SpecListeners == Init /\ [][NextListeners]_vars

\* the home screen of the client behind k1: its socket joins rooms, users send
\* and its user reads over HTTP one request at a time, the other socket
\* relays, and the home screen handles what it is sent
NextHome ==
  \/ setIO
  \/ \E r \in Slots : SendStep(r) \/ ReadStep(r)
  \/ /\ Idle /\ allocated < MaxPosted
     /\ \E u \in {"u1", "u2"} : SendFind(u, "c1", "hi", "send")
  \/ Idle /\ ReadFind("u1", "c1", None)
  \/ \E k \in Conns : Connect(k)
  \/ Authenticate("k2", "u2")
  \/ \E c \in Chats : JoinChat("k1", c)
  \/ \E c \in Chats : SendMessage("k2", c, 1)
  \/ \E k \in Conns :
       /\ \A c \in Chats : screen[k].unreadCount[c] < MaxBadge
       /\ HomeReceive(k)

SpecHome == Init /\ [][NextHome]_vars

\* ------------------------------------------------------------------ claims

\* C1: the message list of a chat screen never holds two entries with the
\* same message id, however often a new-message event for that id arrives.
C1_IdempotentDelivery ==
  \A k \in Conns : \A i, j \in DOMAIN screen[k].messages :
    i # j => screen[k].messages[i] # screen[k].messages[j]

\* C2: when a send or upload handled with nothing interleaved has persisted
\* its message and finished its increments, the unread counter of every other
\* participant of the chat is one more than when the request arrived, and the
\* sender's is what it was.
C2_UnreadIncrementedOnce ==
  \A r \in Slots :
    (reqs[r].kind \in {"send", "upload"} /\ reqs[r].pc = "emit") =>
      \A p \in Range(participants(reqs[r].chat)) :
        unreadCount[reqs[r].chat][p] =
          before[reqs[r].chat][p] + (IF p = reqs[r].user THEN 0 ELSE 1)

\* a send in a chat whose counters were already non-zero has done its increments
C2_Witness ==
  \E r \in Slots :
    /\ reqs[r].kind \in {"send", "upload"} /\ reqs[r].pc = "emit"
    /\ \E p \in Range(participants(reqs[r].chat)) :
         p # reqs[r].user /\ before[reqs[r].chat][p] = 1 /\ unreadCount[reqs[r].chat][p] = 2

\* C3: a persisted unread counter is never negative, grows only in the
\* increment step of a send to that chat, and shrinks only to 0, in the reset
\* step of a read of that chat by that user.
C3_UnreadMonotone ==
  [][\A c \in Chats, u \in Users :
       /\ unreadCount'[c][u] >= 0
       /\ unreadCount'[c][u] > unreadCount[c][u] =>
            \E r \in Slots : /\ reqs[r].pc = "inc" /\ reqs[r].chat = c
                             /\ Head(reqs[r].todo) = u /\ reqs'[r] # reqs[r]
       /\ unreadCount'[c][u] < unreadCount[c][u] =>
            /\ unreadCount'[c][u] = 0
            /\ \E r \in Slots : /\ reqs[r].kind = "read" /\ reqs[r].pc = "reset"
                                /\ reqs[r].chat = c /\ reqs[r].user = u
                                /\ reqs'[r] # reqs[r]]_vars

\* C4: with senders only (nobody reads), once every send has completed each
\* user's counter for the chat equals the number of messages the others sent.
C4_NoLostIncrements ==
  Idle => \A c \in Chats, u \in Users :
            unreadCount[c][u] =
              Cardinality({m \in MsgIds : exists(m) /\ msgs[m].chat = c /\ msgs[m].sender # u})

\* C5: whenever no request is in progress, each participant's counter equals
\* the number of non-deleted messages of the chat sent by others that the
\* participant has not read.
C5_LedgerConsistent ==
  Idle => \A c \in Chats : \A u \in Range(participants(c)) :
            unreadCount[c][u] = getUnreadCount(c, u)

\* an edit of message m is raced by a delete: the delete is in progress, or has
\* already been persisted since the edit read the message
raced(e) ==
  \/ msgs[reqs[e].msg].isDeleted
  \/ \E d \in Slots : reqs[d].kind = "delete" /\ inFlight(d) /\ reqs[d].msg = reqs[e].msg

\* C6: delete wins.  A deleted message stays deleted, and an edit raced by a
\* delete neither changes the stored content nor is answered with success.
C6_DeleteWins ==
  [][/\ \A m \in MsgIds : msgs[m].isDeleted => msgs'[m].isDeleted
     /\ \A e \in Slots :
          (reqs[e].kind = "edit" /\ inFlight(e) /\ reqs'[e] # reqs[e] /\ raced(e)) =>
             /\ msgs'[reqs[e].msg].content = msgs[reqs[e].msg].content
             /\ ~(reqs'[e].pc = "done" /\ reqs'[e].status = 200)]_vars

\* C7: an edit, add-reaction or remove-reaction request that finds the message
\* already deleted is rejected at that check: its handler never goes on to
\* write the message or emit an event.
C7_DeletedIsFinal ==
  \A r \in Slots :
    (reqs[r].kind \in {"edit", "react", "unreact"} /\ reqs[r].late) => ~inFlight(r)

\* socket k is handed a new-message event for chat c in this step
gained(k, c) ==
  /\ Len(inbox'[k]) > Len(inbox[k])
  /\ inbox'[k][Len(inbox'[k])].kind = "new-message"
  /\ inbox'[k][Len(inbox'[k])].chatId = c

\* C8: a new-message event for chat c is handed only to sockets that are in
\* the room of c when it is emitted, by the HTTP route and by the relay alike.
C8_RoomIsolation ==
  [][\A k \in Conns, c \in Chats :
       gained(k, c) => (conns[k].state = "live" /\ c \in conns[k].rooms)]_vars

\* a socket holds a new-message of a chat while a live socket that is in the
\* other chat's room only has been handed nothing
C8_Witness ==
  \E k, j \in Conns, c, d \in Chats :
    /\ k # j /\ c # d
    /\ inbox[k] # <<>> /\ Head(inbox[k]).kind = "new-message" /\ Head(inbox[k]).chatId = c
    /\ conns[j].state = "live" /\ conns[j].rooms = {d} /\ inbox[j] = <<>>

\* C9: whenever a new-message event for chat c is handed to some socket, it
\* is handed to every socket in the room of c, the sender's own included.
C9_DeliveredToAllSubscribers ==
  [][\A c \in Chats :
       (\E k \in Conns : gained(k, c)) => \A j \in room(c) : gained(j, c)]_vars

\* C10: every new-message event on its way to a client carries a message that
\* is stored, in that chat and from that sender.
C10_OnlyPersistedMessages ==
  \A k \in Conns : \A i \in DOMAIN inbox[k] :
    inbox[k][i].kind = "new-message" =>
      /\ exists(inbox[k][i].msg)
      /\ msgs[inbox[k][i].msg].chat = inbox[k][i].chatId
      /\ msgs[inbox[k][i].msg].sender = inbox[k][i].sender

\* C11: every socket that is in a room has authenticated: a join-chat from a
\* socket with no bound user does not add it to the room.
C11_RoomMembersAuthenticated ==
  \A k \in Conns : conns[k].rooms # {} => conns[k].userId # None

\* socket k holds an `authenticated` acknowledgment
acked(k) == \E i \in DOMAIN inbox[k] : inbox[k][i].kind = "authenticated"

\* C12: once the server has accepted a valid token on socket k, an
\* `authenticated` acknowledgment is eventually sent to k, and such an
\* acknowledgment only ever goes to the socket bound to the user it names.
C12_AuthenticatedAck ==
  /\ \A k \in Conns : (conns[k].state = "live" /\ conns[k].token \in Users) ~> acked(k)
  /\ [](\A k \in Conns : \A i \in DOMAIN inbox[k] :
          inbox[k][i].kind = "authenticated" => inbox[k][i].sender = conns[k].userId)

\* socket j is told in this step that user u went offline
toldOffline(j, u) ==
  /\ Len(inbox'[j]) > Len(inbox[j])
  /\ inbox'[j][Len(inbox'[j])].kind = "user-status-change"
  /\ inbox'[j][Len(inbox'[j])].content = "offline"
  /\ inbox'[j][Len(inbox'[j])].sender = u

\* C13: the registry lists user u exactly when some live socket is bound to
\* u, and u's offline event is broadcast only when no live socket bound to u
\* is left.
C13_MultiDevicePresence ==
  /\ [](\A u \in Users :
          connectedUsers[u] # None <=>
            \E k \in Conns : conns[k].state = "live" /\ conns[k].userId = u)
  /\ [][\A u \in Users : (\E j \in Conns : toldOffline(j, u)) =>
          ~\E k \in Conns : conns'[k].state = "live" /\ conns'[k].userId = u]_vars

rejectedToken(k) ==
  /\ conns[k].state = "live" /\ conns[k].token # "bad"
  /\ conns'[k].token = "bad"

\* C15 as stated: after an authenticate with a token that does not verify the
\* socket is open with no bound user, and the registry is as before.
C15_InvalidTokenUnbound ==
  [][\A k \in Conns : rejectedToken(k) =>
       /\ conns'[k].state = "live"
       /\ conns'[k].userId = None
       /\ connectedUsers' = connectedUsers]_vars

\* C15, amended: an authenticate with a token that does not verify leaves the
\* socket open and its bound user, its rooms and the registry as they were (a
\* socket with no bound user stays without one); a later authenticate with a
\* token that verifies binds that user to the socket and registers it.
C15_InvalidTokenChangesNothing ==
  [][\A k \in Conns :
       /\ rejectedToken(k) =>
            /\ conns'[k].state = "live"
            /\ conns'[k].userId = conns[k].userId
            /\ conns'[k].rooms = conns[k].rooms
            /\ connectedUsers' = connectedUsers
       /\ (conns[k].state = "live" /\ conns[k].token = "bad" /\ conns'[k].token \in Users) =>
            /\ conns'[k].userId = conns'[k].token
            /\ connectedUsers'[conns'[k].token] = k]_vars

\* a live socket whose latest token did not verify has no bound user
C15_Witness ==
  \E k \in Conns :
    conns[k].state = "live" /\ conns[k].token = "bad" /\ conns[k].userId = None

\* C17: bounded retry.  While every connection attempt fails, the reconnect
\* timer starts at most maxReconnectAttempts reconnect attempts: the count of
\* attempts since the last successful connect never exceeds the maximum.
C17_BoundedRetry == hist.tries <= maxReconnectAttempts

Min(a, b) == IF a <= b THEN a ELSE b

\* C18: the delay of the pending reconnect timer is reconnectDelay * 2^k after
\* k consecutive failed attempts, capped at the configured maximum delay, and
\* a connected service has its attempt counter at 0.
C18_BackoffDelay ==
  /\ svc.reconnectTimer # 0 =>
       svc.reconnectTimer = Min(reconnectDelay * Pow2(hist.fails), reconnectionDelayMax)
  /\ svc.isConnected => svc.reconnectAttempts = 0

\* C16: reconnect resubscription.  At the step that makes the service
\* connected again after an unexpected drop, join-chat has been emitted on the
\* current socket for exactly the rooms the client held when it dropped.
C16_ResubscribeOnReconnect ==
  [][hist.dropped /\ ~svc.isConnected /\ svc'.isConnected
       => svc'.socks[svc'.socket].rooms = hist.held]_vars

\* C19: after disconnect(), and until the caller's next connect or joinChat
\* call, the service is not connected and no reconnect timer is pending.
C19_DisconnectIsFinal ==
  hist.stopped => ~svc.isConnected /\ svc.reconnectTimer = 0

\* C20: after an authentication-error, and until the caller's next connect
\* call, the client emits `authenticate` with its token on no socket.
C20_NoResendAfterRejection ==
  [][hist.rejected /\ hist'.rejected
       => \A n \in SockIds :
            svc'.socks[n].auth = "sent" => svc.socks[n].auth = "sent"]_vars

\* C21: the client is Active only after the server's acknowledgment: a
\* join-chat event is emitted on a socket only when `authenticated` has been
\* received on it since it connected.
C21_ActiveAfterAck ==
  [][\A n \in SockIds :
       svc'.socks[n].rooms \ svc.socks[n].rooms # {} => svc.socks[n].auth = "acked"]_vars

\* C22: typing emitter self-expiry.  While the latest typing event emitted for
\* a chat carries isTyping = true, the typing timer of that chat is pending, so
\* that typing false follows at the latest when it fires.
C22_TypingSelfExpiry ==
  \A c \in Chats : svc.typing[c] = "true" => c \in svc.typingTimers

\* C23: typing receiver.  When a typing event with isTyping = false, sent by
\* another user for the chat the screen has open, is received, the screen's
\* typing indicator is false afterwards.
C23_TypingStopClearsIndicator ==
  [][\A k \in Conns :
       /\ inbox[k] # <<>> /\ inbox'[k] = Tail(inbox[k])
       /\ Head(inbox[k]).kind = "user-typing"
       /\ Head(inbox[k]).content = "false"
       /\ Head(inbox[k]).chatId = screen[k].chat
       /\ Head(inbox[k]).sender # owner(k)
       => ~screen'[k].isTyping]_vars

\* C24: reading a chat.  When a read request of user u for chat c ends, the
\* unread counter of u in c is 0, every stored message of c from another sender
\* that is not deleted has u exactly once in readBy, and every socket in room
\* c has been sent messages-read.
C24_ReadMarksAndNotifies ==
  [][\A r \in Slots :
       reqs[r].pc = "emit" /\ reqs[r].kind = "read" /\ reqs'[r].pc # "emit"
       => LET c == reqs[r].chat
              u == reqs[r].user
          IN /\ unreadCount'[c][u] = 0
             /\ \A m \in MsgIds :
                  exists(m) /\ msgs[m].chat = c /\ msgs[m].sender # u /\ ~msgs[m].isDeleted
                  => Len(SelectSeqBy(msgs'[m].readBy, {u})) = 1
             /\ \A k \in Conns :
                  conns[k].state = "live" /\ c \in conns[k].rooms
                  => /\ inbox'[k] # <<>>
                     /\ inbox'[k][Len(inbox'[k])].kind = "messages-read"
                     /\ Len(inbox'[k]) = Len(inbox[k]) + 1]_vars

\* C25: a send request that ends with an error because a persistence step
\* failed leaves the stored state as it was when the request arrived: its
\* message is not stored, the chat's lastMessage is not that message, and no
\* unread counter has changed.
C25_FailedSendChangesNothing ==
  [][\A r \in Slots :
       reqs[r].kind \in {"send", "upload"} /\ inFlight(r) /\ reqs'[r].status = 500
       => /\ msgs'[reqs[r].msg].chat = None
          /\ lastMessage'[reqs[r].chat] # reqs[r].msg
          /\ unreadCount' = before]_vars

\* C26: concurrent reactions.  When the save of an add-reaction request ends,
\* the persisted reactions of the message hold the requester's reaction with
\* the requested emoji and still hold every reaction of the other users, so
\* that after two interleaved requests of different users both are there.
C26_NoLostReaction ==
  [][\A r \in Slots :
       reqs[r].kind = "react" /\ reqs[r].pc = "save" /\ reqs'[r] # reqs[r]
       => LET m == reqs[r].msg IN
          /\ [user |-> reqs[r].user, emoji |-> reqs[r].content] \in Range(msgs'[m].reactions)
          /\ \A x \in Range(msgs[m].reactions) :
               x.user # reqs[r].user => x \in Range(msgs'[m].reactions)]_vars

\* C27: while the home screen is mounted and the service is connected, the
\* home screen's new-message handler is registered on the service's socket.
C27_HomeHandlerStays ==
  "home" \in svc.mounted /\ svc.socket # 0 /\ svc.isConnected
    => "home" \in svc.socks[svc.socket].handlers

\* C28: at most one socket created by the service is alive (connecting,
\* connected, or down and being reconnected by the Socket.IO client).
C28_SingleSocket ==
  Cardinality({n \in SockIds : svc.socks[n].state \in {"connecting", "connected", "down"}}) <= 1

\* C29: a socket authenticated as a user is in the room of a chat only if that
\* user is a participant of the chat.
C29_OnlyParticipantsSubscribe ==
  \A k \in Conns, c \in Chats :
    conns[k].state = "live" /\ conns[k].userId # None /\ c \in conns[k].rooms
      => isParticipant(c, conns[k].userId)

\* C30: when a home screen handles an event, the unread count it shows for a
\* chat grows by one for a new-message of that chat from another user, becomes
\* 0 for a messages-read of that chat by its own user, and is unchanged
\* otherwise (own echo, other chats, other events).
C30_HomeUnreadCount ==
  [][\A k \in Conns :
       inbox[k] # <<>> /\ inbox'[k] = Tail(inbox[k])
       => LET ev == Head(inbox[k]) IN
          \A c \in Chats :
            screen'[k].unreadCount[c] =
              IF ev.kind = "new-message" /\ ev.chatId = c /\ ev.sender # owner(k)
                 THEN screen[k].unreadCount[c] + 1
              ELSE IF ev.kind = "messages-read" /\ ev.chatId = c /\ ev.sender = owner(k)
                 THEN 0
              ELSE screen[k].unreadCount[c]]_vars

====
